---- MODULE Spec2Model ----
(***************************************************************************)
(* dpp.connect: the Snowflake options builders (snowflake.py), the key     *)
(* selection they share (_get_keys), and the collaborators they call:     *)
(* AwsSecret (secrets.py), Config (config.py), Token (token.py) and        *)
(* get_sf_credentials (sf_auth.py).                                        *)
(*                                                                         *)
(* Python values: a str is a TLA+ string, None is the string None below    *)
(* (no collaborator produces it), a dict is a record whose DOMAIN is the   *)
(* set of its keys, an exception is a result record with raised = TRUE.    *)
(* Two specifications: Spec drives the two options builders on one request *)
(* and one behaviour of the collaborators; TokenSpec drives get_token on   *)
(* one long-lived Token instance under a clock.                            *)
(***************************************************************************)
EXTENDS Integers, Sequences, FiniteSets, TLC

VARIABLES req, env, connector, reader,
          tok, clock, fetches, tokenSrc, expiresSrc, issued, last

(* req, env: the request and the collaborators' answers the builders run on.
   connector, reader: what get_snowflake_options and get_spark_snowflake_options
   did on them: outcome, mapping or error, collaborator calls, warnings.
   tok: the Token instance (its fields); clock: utcnow().
   History of the Token instance: fetches counts the requests sent to the token
   endpoint; tokenSrc and expiresSrc number the request whose response set _token
   and _expires_at (0: the constructor); issued is the last fetch that completed
   (its time, the lifetime and the token of its response); last records the last
   get_token call and, in prev, the one before it. *)
vars == <<req, env, connector, reader, tok, clock, fetches, tokenSrc, expiresSrc, issued, last>>
optionsVars == <<req, env, connector, reader>>
tokenVars == <<tok, clock, fetches, tokenSrc, expiresSrc, issued, last>>

None == "<None>"

(* dict.get(key): the value, or None when the key is missing. *)
dict_get(d, k) == IF k \in DOMAIN d THEN d[k] ELSE None

(* A variant that never raises: the status goes unchecked. *)
raise_for_status_never(response) == FALSE

(* requests' Response.raise_for_status(): HTTPError for a 4xx or 5xx status. *)
raise_for_status(response) == response.status >= 400

(* A variant that leaves the case as it is. *)
upper_unchanged(s) == s

(* str.upper() on the user names of the model. *)
upper(s) == CASE s = "u1" -> "U1" [] OTHER -> s

(* A variant that always gives the default duration. *)
str_default(n) == "1"

(* str(duration) on the durations of the model. *)
str(n) == CASE n = 1 -> "1" [] n = 90 -> "90" [] OTHER -> "n"

(* f"{token}": None formats as the text None. *)
format(v) == IF v = None THEN "None" ELSE v

(***************************************************************************)
(* PEM text, as the sequence of its lexical pieces: a run of dashes, a     *)
(* BEGIN or END marker, a newline, or a run of base64 characters.          *)
(***************************************************************************)
Dashes == "-----"
Newline == "\n"
BeginMarkers == {"BEGIN RSA PRIVATE KEY", "BEGIN PRIVATE KEY"}
EndMarkers == {"END RSA PRIVATE KEY", "END PRIVATE KEY"}
RsaMarkers == {"BEGIN RSA PRIVATE KEY", "END RSA PRIVATE KEY"}
MarkerLabel(m) == CASE m \in {"BEGIN RSA PRIVATE KEY", "END RSA PRIVATE KEY"} -> "RSA PRIVATE KEY"
                    [] OTHER -> "PRIVATE KEY"

PEM_RSA == <<Dashes, "BEGIN RSA PRIVATE KEY", Dashes, Newline, "ABC", Newline, "DEF",
             Newline, Dashes, "END RSA PRIVATE KEY", Dashes>>
NOT_PEM == <<"ABC", Newline, "DEF">>

RECURSIVE Join(_)
Join(ts) == IF ts = <<>> THEN "" ELSE Head(ts) \o Join(Tail(ts))

(* re.sub("-*(BEGIN|END) RSA PRIVATE KEY-*", "", text): each RSA marker goes,
   with the dashes around it. *)
IsRsaBoundary(ts, i) ==
    \/ ts[i] \in RsaMarkers
    \/ /\ ts[i] = Dashes
       /\ \/ (i > 1 /\ ts[i - 1] \in RsaMarkers)
          \/ (i < Len(ts) /\ ts[i + 1] \in RsaMarkers)
RECURSIVE re_sub_from(_, _)
re_sub_from(ts, i) ==
    IF i > Len(ts) THEN <<>>
    ELSE (IF IsRsaBoundary(ts, i) THEN <<>> ELSE <<ts[i]>>) \o re_sub_from(ts, i + 1)
re_sub_markers(ts) == re_sub_from(ts, 1)

(* str.replace("\n", "") *)
replace_newlines(ts) == SelectSeq(ts, LAMBDA t : t # Newline)

(* Cryptodome.IO.PEM.decode(text)[0]: ValueError unless the text opens with a
   BEGIN boundary followed by whitespace and closes with the END boundary of the
   same label; the data is the base64-decoded body, a bytes value. *)
PEM_valid(ts) ==
    /\ Len(ts) >= 7
    /\ ts[1] = Dashes /\ ts[2] \in BeginMarkers /\ ts[3] = Dashes /\ ts[4] = Newline
    /\ ts[Len(ts) - 2] = Dashes /\ ts[Len(ts) - 1] \in EndMarkers /\ ts[Len(ts)] = Dashes
    /\ MarkerLabel(ts[Len(ts) - 1]) = MarkerLabel(ts[2])
PEM_decode(ts) ==
    IF PEM_valid(ts)
    THEN [raised |-> FALSE,
          value |-> [b64decoded |-> Join(replace_newlines(SubSeq(ts, 4, Len(ts) - 3)))]]
    ELSE [raised |-> TRUE, error |-> "ValueError"]

(***************************************************************************)
(* secrets.py                                                              *)
(***************************************************************************)
(* AwsSecret.__init__: ValueError when a key is None, else the client. *)
AwsSecret_init(aws_access_key_id, aws_secret_access_key) ==
    IF aws_access_key_id = None \/ aws_secret_access_key = None
    THEN [raised |-> TRUE, error |-> "ValueError"]
    ELSE [raised |-> FALSE,
          client |-> [aws_access_key_id |-> aws_access_key_id,
                      aws_secret_access_key |-> aws_secret_access_key]]

(* AwsSecret.get: one get_secret_value; any exception is logged and raised again. *)
AwsSecret_get(client, secret_name, response) ==
    LET call == [op |-> "get_secret_value",
                 aws_access_key_id |-> client.aws_access_key_id,
                 aws_secret_access_key |-> client.aws_secret_access_key,
                 SecretId |-> secret_name]
    IN  IF response.kind = "ClientError"
        THEN [raised |-> TRUE, error |-> "ClientError", calls |-> <<call>>]
        ELSE IF "SecretString" \in DOMAIN response
        THEN IF "sf_account" \in DOMAIN response.SecretString
             THEN [raised |-> FALSE, value |-> response.SecretString.sf_account,
                   calls |-> <<call>>]
             ELSE [raised |-> TRUE, error |-> "KeyError", calls |-> <<call>>]
        ELSE [raised |-> FALSE, value |-> response.SecretBinary.bytes, calls |-> <<call>>]

(***************************************************************************)
(* config.py                                                               *)
(***************************************************************************)
ConfigKeys == {"AUDIENCE_URL", "OAUTH_URL", "BASE_SF_AUTH_URL"}

(* Config.__init__ and get_config: KeyError when the ini lacks a key. *)
Config_get_config(account_name, client_id, ini) ==
    LET call == [op |-> "Config", account_name |-> account_name, config_client_id |-> client_id]
    IN  IF ~(ConfigKeys \subseteq DOMAIN ini)
        THEN [raised |-> TRUE, error |-> "KeyError", calls |-> <<call>>]
        ELSE [raised |-> FALSE, calls |-> <<call>>,
              value |-> [audience_url |-> ini.AUDIENCE_URL,
                         oauth_url |-> ini.OAUTH_URL,
                         base_sf_auth_url |->
                             ini.BASE_SF_AUTH_URL \o "/v0/accounts/" \o account_name
                             \o "/users/" \o format(client_id) \o "@clients/credentials"]]

(***************************************************************************)
(* token.py                                                                *)
(***************************************************************************)
(* Token.__init__ at time now. *)
Token_init(client_id, client_secret, audience_url, oauth_url, now) ==
    [_client_id |-> client_id, _client_secret |-> client_secret,
     _audience_url |-> audience_url, _oauth_url |-> oauth_url,
     _token |-> None, _expires_at |-> now]

(* not self._token: None and the empty string are falsy. *)
falsy(v) == v = None \/ v = ""

_is_expired(self, now) == self._expires_at < now

(* A variant that drops the lifetime: the expiry is the time of the fetch. *)
set_expired_datetime_without_lifetime(self, seconds, now) ==
    [self EXCEPT !._expires_at = now]

_set_new_expired_datetime(self, seconds, now) ==
    [self EXCEPT !._expires_at = now + seconds]

(* Token.get_token called at time now; when it sends the request, the response
   arrives latency later, and utcnow() in _set_new_expired_datetime reads that
   later time. timedelta(seconds=None) is a TypeError, raised after _token has
   been assigned. *)
get_token(self, now, response, latency) ==
    IF falsy(self._token) \/ _is_expired(self, now)
    THEN LET call == [op |-> "POST", url |-> self._oauth_url,
                      grant_type |-> "client_credentials",
                      client_id |-> self._client_id,
                      client_secret |-> self._client_secret,
                      audience |-> self._audience_url]
             done == now + latency
             self1 == [self EXCEPT !._token = dict_get(response.json, "access_token")]
         IN  IF raise_for_status(response)
             THEN [raised |-> TRUE, error |-> "HTTPError", self |-> self,
                   calls |-> <<call>>, done |-> done,
                   set_token |-> FALSE, set_expiry |-> FALSE]
             ELSE IF "expires_in" \notin DOMAIN response.json
             THEN [raised |-> TRUE, error |-> "TypeError", self |-> self1,
                   calls |-> <<call>>, done |-> done,
                   set_token |-> TRUE, set_expiry |-> FALSE]
             ELSE LET self2 == _set_new_expired_datetime(self1, response.json.expires_in, done)
                  IN  [raised |-> FALSE, value |-> self2._token, self |-> self2,
                       calls |-> <<call>>, done |-> done,
                       set_token |-> TRUE, set_expiry |-> TRUE]
    ELSE [raised |-> FALSE, value |-> self._token, self |-> self,
          calls |-> <<>>, done |-> now,
          set_token |-> FALSE, set_expiry |-> FALSE]

(***************************************************************************)
(* sf_auth.py                                                              *)
(***************************************************************************)
get_sf_credentials(token, base_sf_auth_url, duration, response) ==
    LET call == [op |-> "POST", url |-> base_sf_auth_url,
                 Authorization |-> "Bearer " \o format(token),
                 duration |-> str(duration)]
    IN  IF raise_for_status(response)
        THEN [raised |-> TRUE, error |-> "HTTPError", calls |-> <<call>>]
        ELSE IF "snowflake" \notin DOMAIN response.json
        THEN [raised |-> TRUE, error |-> "KeyError", calls |-> <<call>>]
        ELSE IF ~({"username", "password"} \subseteq DOMAIN response.json.snowflake)
        THEN [raised |-> TRUE, error |-> "KeyError", calls |-> <<call>>]
        ELSE [raised |-> FALSE, calls |-> <<call>>,
              value |-> <<response.json.snowflake.username,
                          response.json.snowflake.password>>]

(***************************************************************************)
(* snowflake.py                                                            *)
(***************************************************************************)
_get_snowflake_authentication(client_id, client_secret, account_name, e) ==
    LET config == Config_get_config(account_name, client_id, e.ini)
    IN  IF config.raised THEN config
        ELSE LET token == get_token(Token_init(client_id, client_secret,
                                               config.value.audience_url,
                                               config.value.oauth_url, 0),
                                    0, e.token, 0)
             IN  IF token.raised
                 THEN [raised |-> TRUE, error |-> token.error,
                       calls |-> config.calls \o token.calls]
                 ELSE [raised |-> FALSE, calls |-> config.calls \o token.calls,
                       value |-> <<config.value.base_sf_auth_url, token.value>>]

(* A variant that tests truthiness where the code tests `is not None`. *)
_get_keys_truthy(username, aws_access_key_id, aws_secret_access_key, role, client_id, client_secret) ==
    IF ~falsy(username) /\ ~falsy(aws_access_key_id) /\ ~falsy(aws_secret_access_key)
    THEN [raised |-> FALSE, warnings |-> <<"DeprecationWarning">>,
          value |-> <<"AWS", aws_access_key_id, aws_secret_access_key>>]
    ELSE IF ~falsy(role) /\ ~falsy(client_id) /\ ~falsy(client_secret)
    THEN [raised |-> FALSE, warnings |-> <<>>,
          value |-> <<"auth0_client", client_id, client_secret>>]
    ELSE [raised |-> TRUE, error |-> "ValueError", warnings |-> <<>>]

(* A variant that tests the OAuth set first. *)
_get_keys_oauth_first(username, aws_access_key_id, aws_secret_access_key, role, client_id, client_secret) ==
    IF role # None /\ client_id # None /\ client_secret # None
    THEN [raised |-> FALSE, warnings |-> <<>>,
          value |-> <<"auth0_client", client_id, client_secret>>]
    ELSE IF username # None /\ aws_access_key_id # None /\ aws_secret_access_key # None
    THEN [raised |-> FALSE, warnings |-> <<"DeprecationWarning">>,
          value |-> <<"AWS", aws_access_key_id, aws_secret_access_key>>]
    ELSE [raised |-> TRUE, error |-> "ValueError", warnings |-> <<>>]

_get_keys(username, aws_access_key_id, aws_secret_access_key, role, client_id, client_secret) ==
    IF username # None /\ aws_access_key_id # None /\ aws_secret_access_key # None
    THEN [raised |-> FALSE, warnings |-> <<"DeprecationWarning">>,
          value |-> <<"AWS", aws_access_key_id, aws_secret_access_key>>]
    ELSE IF role # None /\ client_id # None /\ client_secret # None
    THEN [raised |-> FALSE, warnings |-> <<>>,
          value |-> <<"auth0_client", client_id, client_secret>>]
    ELSE [raised |-> TRUE, error |-> "ValueError", warnings |-> <<>>]

(* Variants that swap the database and the schema. *)
connector_base_swapped(r) ==
    [account |-> r.account_name \o ".eu-west-1",
     database |-> r.schema,
     schema |-> r.database,
     warehouse |-> "PUBLIC"]

spark_base_swapped(r) ==
    [sfURL |-> r.account_name \o ".eu-west-1.snowflakecomputing.com",
     sfDatabase |-> r.schema,
     sfSchema |-> r.database,
     sfWarehouse |-> "PUBLIC"]

connector_base(r) ==
    [account |-> r.account_name \o ".eu-west-1",
     database |-> r.database,
     schema |-> r.schema,
     warehouse |-> "PUBLIC"]

spark_base(r) ==
    [sfURL |-> r.account_name \o ".eu-west-1.snowflakecomputing.com",
     sfDatabase |-> r.database,
     sfSchema |-> r.schema,
     sfWarehouse |-> "PUBLIC"]

Raised(error, key_type, calls, warnings) ==
    [outcome |-> "raised", error |-> error, key_type |-> key_type,
     calls |-> calls, warnings |-> warnings]
Returned(value, key_type, calls, warnings) ==
    [outcome |-> "returned", value |-> value, key_type |-> key_type,
     calls |-> calls, warnings |-> warnings]

get_snowflake_options(r, e) ==
    LET keys == _get_keys(r.username, r.aws_access_key_id, r.aws_secret_access_key,
                          r.role, r.client_id, r.client_secret)
    IN  IF keys.raised THEN Raised(keys.error, None, <<>>, keys.warnings)
        ELSE
        LET key_type == keys.value[1]
            key_id == keys.value[2]
            secret == keys.value[3]
            result == connector_base(r)
        IN  IF key_type = "AWS"
            THEN LET username == upper(r.username)
                     store == AwsSecret_init(key_id, secret)
                 IN  IF store.raised
                     THEN Raised(store.error, key_type, <<>>, keys.warnings)
                     ELSE
                     LET got == AwsSecret_get(store.client, "snowflake/" \o username, e.secret)
                     IN  IF got.raised
                         THEN Raised(got.error, key_type, got.calls, keys.warnings)
                         ELSE
                         LET pem == PEM_decode(got.value)
                         IN  IF pem.raised
                             THEN Raised(pem.error, key_type, got.calls, keys.warnings)
                             ELSE Returned([private_key |-> pem.value, user |-> username]
                                           @@ result, key_type, got.calls, keys.warnings)
            ELSE LET auth == _get_snowflake_authentication(r.client_id, r.client_secret,
                                                           r.account_name, e)
                 IN  IF auth.raised
                     THEN Raised(auth.error, key_type, auth.calls, keys.warnings)
                     ELSE
                     LET cred == get_sf_credentials(auth.value[2], auth.value[1],
                                                    r.duration, e.cred)
                     IN  IF cred.raised
                         THEN Raised(cred.error, key_type, auth.calls \o cred.calls,
                                     keys.warnings)
                         ELSE Returned([user |-> cred.value[1], password |-> cred.value[2],
                                        role |-> r.role] @@ result,
                                       key_type, auth.calls \o cred.calls, keys.warnings)

get_spark_snowflake_options(r, e) ==
    LET keys == _get_keys(r.username, r.aws_access_key_id, r.aws_secret_access_key,
                          r.role, r.client_id, r.client_secret)
    IN  IF keys.raised THEN Raised(keys.error, None, <<>>, keys.warnings)
        ELSE
        LET key_type == keys.value[1]
            key_id == keys.value[2]
            secret == keys.value[3]
            result == spark_base(r)
        IN  IF key_type = "AWS"
            THEN LET username == upper(r.username)
                     store == AwsSecret_init(key_id, secret)
                 IN  IF store.raised
                     THEN Raised(store.error, key_type, <<>>, keys.warnings)
                     ELSE
                     LET got == AwsSecret_get(store.client, "snowflake/" \o username, e.secret)
                     IN  IF got.raised
                         THEN Raised(got.error, key_type, got.calls, keys.warnings)
                         ELSE Returned([pem_private_key |->
                                            Join(replace_newlines(re_sub_markers(got.value))),
                                        sfUser |-> username] @@ result,
                                       key_type, got.calls, keys.warnings)
            ELSE LET auth == _get_snowflake_authentication(r.client_id, r.client_secret,
                                                           r.account_name, e)
                 IN  IF auth.raised
                     THEN Raised(auth.error, key_type, auth.calls, keys.warnings)
                     ELSE
                     LET cred == get_sf_credentials(auth.value[2], auth.value[1],
                                                    r.duration, e.cred)
                     IN  IF cred.raised
                         THEN Raised(cred.error, key_type, auth.calls \o cred.calls,
                                     keys.warnings)
                         ELSE Returned([sfUser |-> cred.value[1], sfPassword |-> cred.value[2],
                                        sfRole |-> r.role] @@ result,
                                       key_type, auth.calls \o cred.calls, keys.warnings)

(***************************************************************************)
(* Bounds and the inputs drawn within them.                                *)
(***************************************************************************)
MaxClock == 6
MaxLatency == 1
MaxFetches == 3

Usernames == {None, "", "u1"}
AccessKeyIds == {None, "", "AKIA"}
SecretAccessKeys == {None, "", "asak"}
Roles == {None, "", "r1"}
ClientIds == {None, "", "c1"}
ClientSecrets == {None, "", "cs1"}

Requests ==
    {r \in [username : Usernames, aws_access_key_id : AccessKeyIds,
            aws_secret_access_key : SecretAccessKeys,
            role : Roles, client_id : ClientIds, client_secret : ClientSecrets,
            database : {"db1", "db2"}, schema : {"s1"},
            account_name : {"vistaprint", "acme"}, duration : {1, 90}] :
        \/ r.database = "db1" /\ r.account_name = "vistaprint" /\ r.duration = 1
        \/ r.database = "db2" /\ r.account_name = "acme" /\ r.duration = 90}

SecretOk == [kind |-> "SecretString", SecretString |-> [sf_account |-> PEM_RSA]]
SecretResponses ==
    {SecretOk,
     [kind |-> "SecretBinary", SecretBinary |-> [bytes |-> PEM_RSA]],
     [kind |-> "SecretString", SecretString |-> [sf_account |-> NOT_PEM]],
     [kind |-> "SecretString", SecretString |-> [other |-> "x"]],
     [kind |-> "ClientError"]}

IniOk == [AUDIENCE_URL |-> "https://audience", OAUTH_URL |-> "https://oauth/token",
          BASE_SF_AUTH_URL |-> "https://sfauth"]
Inis == {IniOk, [AUDIENCE_URL |-> "https://audience"]}

Lifetimes == {2, 5}
AccessTokens == {"tokA", "tokB"}
TokenOk == [status |-> 200, json |-> [access_token |-> "tokA", expires_in |-> 5]]
TokenDenied == [status |-> 401, json |-> [error |-> "access_denied"]]
TokenResponses ==
    {[status |-> 200, json |-> j] : j \in [access_token : AccessTokens, expires_in : Lifetimes]}
    \cup {[status |-> 200, json |-> [expires_in |-> 5]],
          [status |-> 200, json |-> [access_token |-> "tokB"]],
          TokenDenied}
BuilderTokenResponses ==
    {TokenOk, TokenDenied,
     [status |-> 200, json |-> [expires_in |-> 5]],
     [status |-> 200, json |-> [access_token |-> "tokA"]]}

CredOk == [status |-> 200,
           json |-> [snowflake |-> [username |-> "alice", password |-> "pw1"]]]
CredResponses ==
    {CredOk,
     [status |-> 200, json |-> [message |-> "no credentials"]],
     [status |-> 403, json |-> [message |-> "denied"]]}

(* One behaviour of the collaborators: the secret store's answer, the ini file,
   the token endpoint's answer, the credential endpoint's answer. Either the
   secret store or the OAuth collaborators vary, the others answering well. *)
Envs ==
    {e \in [secret : SecretResponses, ini : Inis,
            token : BuilderTokenResponses, cred : CredResponses] :
        \/ e.secret = SecretOk
        \/ e.ini = IniOk /\ e.token = TokenOk /\ e.cred = CredOk}

NotCalled == [outcome |-> "not called"]
NoResponse == [status |-> 0, json |-> [none |-> TRUE]]
NoCall ==
    [called |-> FALSE, now |-> 0, pre_token |-> None, pre_expires_at |-> 0,
     pre_issued |-> [valid |-> FALSE], response |-> NoResponse, calls |-> <<>>,
     raised |-> FALSE, error |-> None, value |-> None, done |-> 0,
     prev |-> [called |-> FALSE, now |-> 0, sent |-> FALSE, status |-> 0]]

IdleRequest ==
    [username |-> None, aws_access_key_id |-> None, aws_secret_access_key |-> None,
     role |-> "r1", client_id |-> "c1", client_secret |-> "cs1",
     database |-> "db1", schema |-> "s1", account_name |-> "vistaprint", duration |-> 1]
IdleEnv == [secret |-> SecretOk, ini |-> IniOk, token |-> TokenOk, cred |-> CredOk]

(***************************************************************************)
(* The options builders: a request and a behaviour of the collaborators    *)
(* are fixed; each builder is called on them.                              *)
(***************************************************************************)
TokenConstructed ==
    /\ tok = Token_init("c1", "cs1", IniOk.AUDIENCE_URL, IniOk.OAUTH_URL, 0)
    /\ clock = 0
    /\ fetches = 0
    /\ tokenSrc = 0
    /\ expiresSrc = 0
    /\ issued = [valid |-> FALSE]
    /\ last = NoCall

Init ==
    /\ req \in Requests
    /\ env \in Envs
    /\ connector = NotCalled
    /\ reader = NotCalled
    /\ TokenConstructed

Call_get_snowflake_options ==
    /\ connector = NotCalled
    /\ connector' = get_snowflake_options(req, env)
    /\ UNCHANGED <<req, env, reader>>
    /\ UNCHANGED tokenVars

Call_get_spark_snowflake_options ==
    /\ reader = NotCalled
    /\ reader' = get_spark_snowflake_options(req, env)
    /\ UNCHANGED <<req, env, connector>>
    /\ UNCHANGED tokenVars

Next == Call_get_snowflake_options \/ Call_get_spark_snowflake_options

Spec == Init /\ [][Next]_vars

(***************************************************************************)
(* One Token instance, constructed at time 0, under a clock that only      *)
(* moves forward.                                                          *)
(***************************************************************************)
TokenInit ==
    /\ req = IdleRequest
    /\ env = IdleEnv
    /\ connector = NotCalled
    /\ reader = NotCalled
    /\ TokenConstructed

Tick ==
    /\ clock < MaxClock
    /\ clock' = clock + 1
    /\ UNCHANGED <<tok, fetches, tokenSrc, expiresSrc, issued, last>>
    /\ UNCHANGED optionsVars

Call_get_token ==
    \E response \in TokenResponses, latency \in 0..MaxLatency :
        LET r == get_token(tok, clock, response, latency)
            sent == r.calls # <<>>
        IN  /\ IF sent
               THEN fetches < MaxFetches /\ clock + latency <= MaxClock
               ELSE response = TokenOk /\ latency = 0
            /\ tok' = r.self
            /\ clock' = r.done
            /\ fetches' = fetches + Len(r.calls)
            /\ tokenSrc' = IF r.set_token THEN fetches + 1 ELSE tokenSrc
            /\ expiresSrc' = IF r.set_expiry THEN fetches + 1 ELSE expiresSrc
            /\ issued' = IF sent /\ ~r.raised
                         THEN [valid |-> TRUE, t |-> r.done,
                               L |-> response.json.expires_in,
                               token |-> dict_get(response.json, "access_token")]
                         ELSE issued
            /\ last' = [called |-> TRUE, now |-> clock,
                        pre_token |-> tok._token, pre_expires_at |-> tok._expires_at,
                        pre_issued |-> issued,
                        response |-> IF sent THEN response ELSE NoResponse,
                        calls |-> r.calls, raised |-> r.raised,
                        error |-> IF r.raised THEN r.error ELSE None,
                        value |-> IF r.raised THEN None ELSE r.value,
                        done |-> r.done,
                        prev |-> [called |-> last.called, now |-> last.now,
                                  sent |-> last.calls # <<>>,
                                  status |-> last.response.status]]
            /\ UNCHANGED optionsVars

TokenNext == Tick \/ Call_get_token

TokenSpec == TokenInit /\ [][TokenNext]_vars

(***************************************************************************)
(* Properties of the options builders (Spec).                              *)
(***************************************************************************)
StaticFields == {"username", "aws_access_key_id", "aws_secret_access_key"}
OAuthFields == {"role", "client_id", "client_secret"}
Complete(fields) == \A f \in fields : req[f] # None
NonePresent(fields) == \A f \in fields : req[f] = None
Results == {res \in {connector, reader} : res.outcome # "not called"}

(* C1: key selection takes the static-key path when username, access_key_id and
   secret_key are all present, else the OAuth path when role, client_id and
   client_secret are all present, else fails with ValueError, no collaborator
   called and no mapping returned. *)
C1_KeySelection ==
    \A res \in Results :
        IF Complete(StaticFields) THEN res.key_type = "AWS"
        ELSE IF Complete(OAuthFields) THEN res.key_type = "auth0_client"
        ELSE /\ res.outcome = "raised"
             /\ res.error = "ValueError"
             /\ res.key_type = None
             /\ res.calls = <<>>

C1_Witness ==
    /\ connector.outcome = "raised"
    /\ connector.error = "ValueError"
    /\ req.username = "u1" /\ req.aws_access_key_id = "" /\ req.aws_secret_access_key = None
    /\ req.role = "r1" /\ req.client_id = "c1" /\ req.client_secret = None

(* C2, as claimed: a mapping is returned only when exactly one set is complete
   and no field of the other set is supplied. *)
C2_OnlyUnmixedAccepted ==
    \A res \in Results :
        res.outcome = "returned" =>
            \/ Complete(StaticFields) /\ NonePresent(OAuthFields)
            \/ Complete(OAuthFields) /\ NonePresent(StaticFields)

(* The request with the fields of the branch not taken removed. *)
WithoutOtherBranch ==
    IF Complete(StaticFields)
    THEN [req EXCEPT !.role = None, !.client_id = None, !.client_secret = None]
    ELSE IF Complete(OAuthFields)
    THEN [req EXCEPT !.username = None, !.aws_access_key_id = None,
                     !.aws_secret_access_key = None]
    ELSE req

(* C2, amended: a mapping is returned only when at least one set is complete;
   exactly one branch is taken, the static-key branch whenever its set is complete
   and else the OAuth branch; the fields of the branch not taken are ignored, so
   the call behaves as on the request without them. *)
C2_OneBranchOtherIgnored ==
    /\ \A res \in Results :
        /\ res.outcome = "returned" => Complete(StaticFields) \/ Complete(OAuthFields)
        /\ res.key_type = "AWS" <=> Complete(StaticFields)
        /\ res.key_type = "auth0_client" <=> ~Complete(StaticFields) /\ Complete(OAuthFields)
        /\ res.key_type = "AWS" => \A i \in DOMAIN res.calls : res.calls[i].op = "get_secret_value"
        /\ res.key_type = "auth0_client" =>
               \A i \in DOMAIN res.calls : res.calls[i].op \in {"Config", "POST"}
    /\ connector.outcome # "not called" =>
           connector = get_snowflake_options(WithoutOtherBranch, env)
    /\ reader.outcome # "not called" =>
           reader = get_spark_snowflake_options(WithoutOtherBranch, env)

C2_Witness ==
    /\ connector.outcome = "returned"
    /\ connector.key_type = "AWS"
    /\ req.role = "r1" /\ req.client_id = "c1" /\ req.client_secret = "cs1"

ExpectedCredentialUrl ==
    "https://sfauth/v0/accounts/" \o req.account_name \o "/users/" \o req.client_id
    \o "@clients/credentials"
ExpectedDuration == IF req.duration = 90 THEN "90" ELSE "1"
TokenStepSucceeds == env.token.status = 200 /\ "expires_in" \in DOMAIN env.token.json
ExpectedBearer ==
    IF "access_token" \in DOMAIN env.token.json
    THEN "Bearer " \o env.token.json.access_token ELSE "Bearer None"

(* C6: an OAuth-path call loads the config, then sends one request to the token
   endpoint, then one request to the credential endpoint with that token and the
   caller's duration, and never queries the secret store; a failed step ends the
   call with no later step and no mapping. A static-key call only queries the
   secret store. A call that fails key selection calls nothing. *)
C6_CollaboratorOrder ==
    \A res \in Results :
        LET n == Len(res.calls) IN
        /\ res.key_type = "auth0_client" =>
            /\ n \in 1..3
            /\ res.calls[1] = [op |-> "Config", account_name |-> req.account_name,
                               config_client_id |-> req.client_id]
            /\ n >= 2 <=> env.ini = IniOk
            /\ n >= 2 => res.calls[2] =
                   [op |-> "POST", url |-> "https://oauth/token",
                    grant_type |-> "client_credentials",
                    client_id |-> req.client_id, client_secret |-> req.client_secret,
                    audience |-> "https://audience"]
            /\ n = 3 <=> env.ini = IniOk /\ TokenStepSucceeds
            /\ n = 3 => res.calls[3] =
                   [op |-> "POST", url |-> ExpectedCredentialUrl,
                    Authorization |-> ExpectedBearer, duration |-> ExpectedDuration]
            /\ res.outcome = "returned" <=> n = 3 /\ env.cred = CredOk
        /\ res.key_type = "AWS" =>
            /\ n = 1
            /\ res.calls[1].op = "get_secret_value"
            /\ res.outcome = "returned" => env.secret.kind # "ClientError"
        /\ res.key_type = None => n = 0 /\ res.outcome = "raised"

C6_Witness ==
    /\ reader.outcome = "returned"
    /\ reader.key_type = "auth0_client"
    /\ Len(reader.calls) = 3
    /\ req.duration = 90
    /\ reader.calls[3].duration = "90"

BaseKeys == {"account", "database", "schema", "warehouse"}
SparkBaseKeys == {"sfURL", "sfDatabase", "sfSchema", "sfWarehouse"}
IsUpperOf(U, u) == (u = "u1" /\ U = "U1") \/ (u = "" /\ U = "")
ExpectedAccount == IF req.account_name = "acme" THEN "acme.eu-west-1" ELSE "vistaprint.eu-west-1"
ExpectedUrl ==
    IF req.account_name = "acme" THEN "acme.eu-west-1.snowflakecomputing.com"
    ELSE "vistaprint.eu-west-1.snowflakecomputing.com"

(* C7: a returned mapping holds the four base fields (warehouse PUBLIC) plus
   either the private key and the upper-cased user, with no password and no role
   (static-key path, whatever role the caller gave, and no call carrying the
   duration), or user, password and role (OAuth path). *)
C7_MappingShape ==
    /\ connector.outcome = "returned" =>
        LET v == connector.value IN
        /\ v.account = ExpectedAccount /\ v.database = req.database
        /\ v.schema = req.schema /\ v.warehouse = "PUBLIC"
        /\ connector.key_type = "AWS" =>
            /\ DOMAIN v = BaseKeys \cup {"private_key", "user"}
            /\ IsUpperOf(v.user, req.username)
            /\ \A i \in DOMAIN connector.calls : "duration" \notin DOMAIN connector.calls[i]
        /\ connector.key_type = "auth0_client" =>
            /\ DOMAIN v = BaseKeys \cup {"user", "password", "role"}
            /\ v.user = "alice" /\ v.password = "pw1" /\ v.role = req.role
        /\ connector.key_type \in {"AWS", "auth0_client"}
    /\ reader.outcome = "returned" =>
        LET v == reader.value IN
        /\ v.sfURL = ExpectedUrl /\ v.sfDatabase = req.database
        /\ v.sfSchema = req.schema /\ v.sfWarehouse = "PUBLIC"
        /\ reader.key_type = "AWS" =>
            /\ DOMAIN v = SparkBaseKeys \cup {"pem_private_key", "sfUser"}
            /\ IsUpperOf(v.sfUser, req.username)
            /\ \A i \in DOMAIN reader.calls : "duration" \notin DOMAIN reader.calls[i]
        /\ reader.key_type = "auth0_client" =>
            /\ DOMAIN v = SparkBaseKeys \cup {"sfUser", "sfPassword", "sfRole"}
            /\ v.sfUser = "alice" /\ v.sfPassword = "pw1" /\ v.sfRole = req.role
        /\ reader.key_type \in {"AWS", "auth0_client"}

C7_Witness ==
    /\ connector.outcome = "returned"
    /\ connector.key_type = "AWS"
    /\ req.role = "r1" /\ req.duration = 90 /\ req.username = "u1"
    /\ connector.value.user = "U1"
    /\ "role" \notin DOMAIN connector.value

ExpectedSecretName == IF req.username = "u1" THEN "snowflake/U1" ELSE "snowflake/"

(* C8: a call on the static-key branch emits exactly one DeprecationWarning, goes
   on, and queries the secret store exactly once, for "snowflake/" followed by the
   upper-cased username, with the caller's access key id and secret key; any other
   call emits no warning. *)
C8_DeprecationAndSecretName ==
    \A res \in Results :
        IF Complete(StaticFields)
        THEN /\ res.warnings = <<"DeprecationWarning">>
             /\ res.calls = <<[op |-> "get_secret_value",
                               aws_access_key_id |-> req.aws_access_key_id,
                               aws_secret_access_key |-> req.aws_secret_access_key,
                               SecretId |-> ExpectedSecretName]>>
        ELSE res.warnings = <<>>

C8_Witness ==
    /\ reader.outcome = "returned"
    /\ reader.warnings = <<"DeprecationWarning">>
    /\ req.username = "u1"
    /\ reader.calls[1].SecretId = "snowflake/U1"
    /\ req.role = None

Renaming ==
    {<<"database", "sfDatabase">>, <<"schema", "sfSchema">>, <<"warehouse", "sfWarehouse">>,
     <<"user", "sfUser">>, <<"password", "sfPassword">>, <<"role", "sfRole">>}
MappingsAgree(cv, rv) ==
    /\ \A p \in Renaming :
        /\ p[1] \in DOMAIN cv <=> p[2] \in DOMAIN rv
        /\ p[1] \in DOMAIN cv => cv[p[1]] = rv[p[2]]
    /\ "account" \in DOMAIN cv /\ "sfURL" \in DOMAIN rv
    /\ "private_key" \in DOMAIN cv <=> "pem_private_key" \in DOMAIN rv
    /\ DOMAIN cv \subseteq {p[1] : p \in Renaming} \cup {"account", "private_key"}
    /\ DOMAIN rv \subseteq {p[2] : p \in Renaming} \cup {"sfURL", "pem_private_key"}
SamePathAndCalls ==
    /\ connector.key_type = reader.key_type
    /\ connector.calls = reader.calls
    /\ connector.warnings = reader.warnings
SameOutcome ==
    /\ connector.outcome = reader.outcome
    /\ connector.outcome = "raised" => connector.error = reader.error
    /\ connector.outcome = "returned" => MappingsAgree(connector.value, reader.value)
BothCalled == connector.outcome # "not called" /\ reader.outcome # "not called"

(* C9, as claimed: on the same request and the same collaborators, the two
   builders take the same path, make the same calls, fail alike with the same
   error, and return mappings that agree under the renaming. *)
C9_VariantsAgree == BothCalled => SamePathAndCalls /\ SameOutcome

(* C9, amended: as claimed, except that on the static-key path, when the secret
   store answers with text that is not PEM, get_snowflake_options raises
   ValueError (PEM.decode) where get_spark_snowflake_options returns a mapping. *)
C9_VariantsAgreeButPemDecoding ==
    BothCalled =>
        /\ SamePathAndCalls
        /\ \/ SameOutcome
           \/ /\ connector.key_type = "AWS"
              /\ env.secret = [kind |-> "SecretString",
                               SecretString |-> [sf_account |-> NOT_PEM]]
              /\ connector.outcome = "raised" /\ connector.error = "ValueError"
              /\ reader.outcome = "returned"

C9_Witness ==
    /\ connector.outcome = "returned" /\ reader.outcome = "returned"
    /\ connector.key_type = "auth0_client"
    /\ req.database = "db2"
    /\ connector.value.role = "r1" /\ reader.value.sfRole = "r1"

(***************************************************************************)
(* Properties of one Token instance (TokenSpec).                           *)
(***************************************************************************)
NonSuccess(status) == status \notin 200..299
WellFormed(response) ==
    response.status = 200 /\ {"access_token", "expires_in"} \subseteq DOMAIN response.json

(* C3: after a fetch that completed at time t and issued a token with lifetime L,
   a get_token call at a time before t + L sends no request and returns that
   token; a call at a time after t + L sends exactly one request and, answered
   with a token and a lifetime, returns the new token. *)
C3_CachedUntilExpiry ==
    (last.called /\ last.pre_issued.valid /\ last.pre_issued.token \notin {None, ""}) =>
        LET expiry == last.pre_issued.t + last.pre_issued.L IN
        /\ last.pre_expires_at = expiry
        /\ last.now < expiry =>
            /\ last.calls = <<>>
            /\ ~last.raised
            /\ last.value = last.pre_issued.token
        /\ last.now > expiry =>
            /\ Len(last.calls) = 1
            /\ WellFormed(last.response) =>
                   ~last.raised /\ last.value = last.response.json.access_token

C3_Witness ==
    /\ last.called
    /\ last.pre_issued = [valid |-> TRUE, t |-> 0, L |-> 5, token |-> "tokA"]
    /\ last.prev.called /\ last.prev.now = 3 /\ ~last.prev.sent
    /\ last.now = 6
    /\ Len(last.calls) = 1
    /\ last.value = "tokB"

(* C4: a fetch answered with a non-success status makes get_token raise and leaves
   the stored token and the stored expiry as they were, absent or expired; the
   next get_token call sends a request again. *)
C4_FailedFetchLeavesState ==
    /\ (last.called /\ last.calls # <<>> /\ NonSuccess(last.response.status)) =>
        /\ last.raised
        /\ tok._token = last.pre_token
        /\ tok._expires_at = last.pre_expires_at
        /\ tok._token = None \/ tok._expires_at < last.now
    /\ (last.called /\ last.prev.sent /\ NonSuccess(last.prev.status)) =>
        Len(last.calls) = 1

C4_Witness ==
    /\ last.called
    /\ last.prev.sent /\ last.prev.status = 401
    /\ last.pre_token = "tokA"
    /\ Len(last.calls) = 1
    /\ ~last.raised

(* C5: get_token skips the fetch and returns the held value exactly when the
   value is present and the time is strictly before expires_at; at the instant
   now = expires_at it fetches. *)
C5_UsableIffBeforeExpiry ==
    last.called =>
        /\ last.calls = <<>> <=> (last.pre_token # None /\ last.now < last.pre_expires_at)
        /\ last.calls = <<>> => ~last.raised /\ last.value = last.pre_token

(* C10: the stored token and the stored expiry come from the same response (or
   both from construction) after every get_token call, returning or raising, and
   a call that returns normally returns a token that is not None. *)
C10_TokenAndExpiryTogether ==
    /\ tokenSrc = expiresSrc
    /\ (last.called /\ ~last.raised) => last.value # None

====
